---- MODULE Spec2Model ----
(***************************************************************************)
(* Verification model of the CS50AI repository:                            *)
(*   - 3_optimisation/crossword/generate.py  (CrosswordCreator)            *)
(*   - 0_search/tictactoe/tictactoe.py       (winner, terminal, minimax)   *)
(*   - 1_knowledge/minesweeper/minesweeper.py (MinesweeperAI, Sentence)    *)
(* Python's None is the string "None"; words are sequences of letters, so  *)
(* Python's word[k] is w[k + 1].                                           *)
(***************************************************************************)
EXTENDS Integers, Sequences, FiniteSets, TLC

VARIABLES
    crossword,    \* self.crossword: [height, width, structure, words]
    varOrder,     \* iteration order of crossword.variables / self.domains
    domains,      \* self.domains: variable -> set of words
    pc,           \* position inside solve()
    queue,        \* ac3's work list of arcs <<x, y>>
    ac3_ret,      \* value returned by the ac3() call of solve()
    assignment,   \* the dict shared by all backtrack() calls, in insertion order
    stack,        \* one frame [var, tried, entry] per active backtrack() call
    bt_calls,     \* number of calls of backtrack() made so far
    solved,       \* value returned by solve()
    letters,      \* value returned by letter_grid(solved)
    board,        \* tic-tac-toe board
    win,          \* value returned by winner(board)
    best_move,    \* value returned by minimax(board)
    rev_last,     \* the last revise(x, y) call made on its own
    consistent_ret, \* value returned (or exception raised) by consistent(assignment)
    ms_height,    \* Minesweeper.height and MinesweeperAI.height
    ms_width,     \* Minesweeper.width and MinesweeperAI.width
    ms_mines,     \* Minesweeper.mines: the cells of the board that hold a mine
    moves_made,   \* MinesweeperAI.moves_made
    ai_mines,     \* MinesweeperAI.mines
    safes,        \* MinesweeperAI.safes
    knowledge     \* MinesweeperAI.knowledge: list of sentences [cells, count]

cwvars == <<crossword, varOrder, domains, pc, queue, ac3_ret, assignment,
            stack, bt_calls, solved, letters>>
tttvars == <<board, win, best_move>>
fnvars == <<rev_last, consistent_ret>>
msvars == <<ms_height, ms_width, ms_height, ms_width, ms_mines, moves_made, ai_mines, safes, knowledge>>
vars == <<crossword, varOrder, domains, pc, queue, ac3_ret, assignment,
          stack, bt_calls, solved, letters, board, win, best_move,
          rev_last, consistent_ret, ms_height, ms_width, ms_mines, moves_made, ai_mines, safes, knowledge>>

None == "None"
Unset == "Unset"

\* ------------------------------------------------------------------------
\* Bounds
\* ------------------------------------------------------------------------
\* largest vocabulary handed to the crossword
MaxVocab == 3
\* minimax is called on boards with at most this many empty cells
MaxEmpty == 4

\* ------------------------------------------------------------------------
\* Generic helpers
\* ------------------------------------------------------------------------
\* all orderings of a finite set, as sequences without repetition
Perms(S) ==
    {s \in [1..Cardinality(S) -> S] : \A a, b \in 1..Cardinality(S) : s[a] = s[b] => a = b}

\* ------------------------------------------------------------------------
\* Grid model (crossword.py: Variable, Crossword)
\* ------------------------------------------------------------------------
ACROSS == "across"
DOWN == "down"
Letters == {"a", "b"}

\* the words a vocabulary file may hold: every word of length 3 and two of length 2
WordUniverse == [1..3 -> Letters] \cup {<<"a", "b">>, <<"b", "a">>}
Vocabularies == {S \in SUBSET WordUniverse : Cardinality(S) <= MaxVocab}

\* structure files: rows of fillable (TRUE) and blocked (FALSE) cells
Structures ==
    { << <<TRUE, TRUE, TRUE>> >>,
      << <<FALSE, TRUE, FALSE>>,
         <<TRUE, TRUE, TRUE>> >>,
      << <<TRUE, FALSE, TRUE>>,
         <<TRUE, TRUE, TRUE>>,
         <<TRUE, FALSE, TRUE>> >> }

\* structure[i][j] with 0-based indices, FALSE outside the grid
Fillable(cw, i, j) ==
    /\ i \in 0..(cw.height - 1)
    /\ j \in 0..(cw.width - 1)
    /\ cw.structure[i + 1][j + 1]

\* length of the run of fillable cells starting at (i, j) in direction d
RunLength(cw, i, j, d) ==
    Cardinality({n \in 1..(cw.height + cw.width) :
        \A k \in 0..(n - 1) :
            Fillable(cw, i + (IF d = DOWN THEN k ELSE 0), j + (IF d = ACROSS THEN k ELSE 0))})

\* a run starts where the cell is fillable and the cell before it is not
StartsRun(cw, i, j, d) ==
    /\ Fillable(cw, i, j)
    /\ ~Fillable(cw, i - (IF d = DOWN THEN 1 ELSE 0), j - (IF d = ACROSS THEN 1 ELSE 0))

Variables(cw) ==
    {[i |-> i, j |-> j, direction |-> d, length |-> RunLength(cw, i, j, d)] :
        <<i, j, d>> \in
            {c \in (0..(cw.height - 1)) \X (0..(cw.width - 1)) \X {ACROSS, DOWN} :
                /\ StartsRun(cw, c[1], c[2], c[3])
                /\ RunLength(cw, c[1], c[2], c[3]) >= 2}}

\* Variable.cells: the k-th cell of the slot, k = 0..length-1
CellAt(v, k) ==
    <<v.i + (IF v.direction = DOWN THEN k ELSE 0),
      v.j + (IF v.direction = ACROSS THEN k ELSE 0)>>

Cells(v) == {CellAt(v, k) : k \in 0..(v.length - 1)}

\* crossword.overlaps[x, y]: None, or the pair of 0-based indices of the shared cell
Overlaps(x, y) ==
    IF Cells(x) \cap Cells(y) = {}
    THEN None
    ELSE CHOOSE p \in (0..(x.length - 1)) \X (0..(y.length - 1)) :
            CellAt(x, p[1]) = CellAt(y, p[2])

\* Crossword(structure, words): the variables and the overlaps are derived once
Crossword(s, w) ==
    LET grid == [height |-> Len(s), width |-> Len(s[1]), structure |-> s]
        variables == Variables(grid)
    IN  [height |-> grid.height, width |-> grid.width, structure |-> s, words |-> w,
         variables |-> variables,
         overlaps |-> [p \in {q \in variables \X variables : q[1] # q[2]} |->
                          Overlaps(p[1], p[2])]]

Crosswords == {Crossword(s, w) : s \in Structures, w \in Vocabularies}

\* crossword.neighbors(var)
Neighbors(cw, var) ==
    {v \in cw.variables : v # var /\ cw.overlaps[<<v, var>>] # None}

\* ------------------------------------------------------------------------
\* CrosswordCreator (generate.py): pure parts
\* ------------------------------------------------------------------------
\* the dict `assignment` is a sequence of <<variable, word>> in insertion order
AssignedVars(asg) == {asg[n][1] : n \in 1..Len(asg)}

ValueOf(asg, var) == asg[CHOOSE n \in 1..Len(asg) : asg[n][1] = var][2]

\* assignment[var] = value
SetItem(asg, var, value) ==
    IF var \in AssignedVars(asg)
    THEN [n \in 1..Len(asg) |-> IF asg[n][1] = var THEN <<var, value>> ELSE asg[n]]
    ELSE Append(asg, <<var, value>>)

\* bug: the tried variable is left in the assignment
PopItemKept(asg, var) == asg

\* assignment.pop(var, None)
PopItem(asg, var) == SelectSeq(asg, LAMBDA e : e[1] # var)

\* __init__: every variable starts with a copy of the whole vocabulary
InitDomains(cw) == [var \in cw.variables |-> cw.words]

\* bug: only words that are too short are removed
NodeConsistentTooShortOnly(v, x) == v.length <= Len(x)

\* enforce_node_consistency keeps x in domains[v] unless v.length != len(x)
NodeConsistent(v, x) == v.length = Len(x)

NodeConsistentDomains(dom) ==
    [v \in DOMAIN dom |-> {x \in dom[v] : NodeConsistent(v, x)}]

\* bug: the two overlap indices are swapped
SupportsSwapped(x_word, y_word, overlap) ==
    /\ x_word # y_word
    /\ x_word[overlap[2] + 1] = y_word[overlap[1] + 1]

\* revise, line 141: y_word supports x_word across the overlap
Supports(x_word, y_word, overlap) ==
    /\ x_word # y_word
    /\ x_word[overlap[1] + 1] = y_word[overlap[2] + 1]

\* bug: the returned flag is inverted
ReviseFlagInverted(cw, dom, x, y) ==
    LET overlap == cw.overlaps[<<x, y>>]
        removed == IF overlap = None
                   THEN {}
                   ELSE {x_word \in dom[x] :
                            ~\E y_word \in dom[y] : Supports(x_word, y_word, overlap)}
    IN  [domains |-> [dom EXCEPT ![x] = dom[x] \ removed],
         revised |-> removed = {}]

\* revise(x, y): the new domains and the returned flag
Revise(cw, dom, x, y) ==
    LET overlap == cw.overlaps[<<x, y>>]
        removed == IF overlap = None
                   THEN {}
                   ELSE {x_word \in dom[x] :
                            ~\E y_word \in dom[y] : Supports(x_word, y_word, overlap)}
    IN  [domains |-> [dom EXCEPT ![x] = dom[x] \ removed],
         revised |-> removed # {}]

\* ac3, lines 162-166: every ordered pair of distinct variables, in dict order
AllArcs(order) ==
    LET n == Len(order)
        pairs == [k \in 1..(n * n) |-> <<order[((k - 1) \div n) + 1], order[((k - 1) % n) + 1]>>]
    IN  SelectSeq(pairs, LAMBDA arc : arc[1] # arc[2])

\* bug: the arc taken from the queue is left on it
PopKept(q) == q

\* ac3, line 170: the list after queue.pop()
Pop(q) == SubSeq(q, 1, Len(q) - 1)

\* bug: the emptiness test is inverted
DomainEmptyInverted(dom, x) == dom[x] # {}

\* ac3, line 172: the revised domain is empty
DomainEmpty(dom, x) == dom[x] = {}

\* bug: nothing is pushed back after a revision
PushedArcsNone(cw, x, y) == {<<>>}

\* ac3, lines 175-176: the arcs (z, x) pushed after a revision, in some set order
PushedArcs(cw, x, y) ==
    {[k \in DOMAIN p |-> <<p[k], x>>] : p \in Perms(Neighbors(cw, x) \ {y})}

\* assignment_complete
AssignmentComplete(dom, asg) == \A variable \in DOMAIN dom : variable \in AssignedVars(asg)

\* bug: the check for a word used twice is missing
ConsistentNoDistinct(cw, asg) ==
    \A n \in 1..Len(asg) :
        LET var_x == asg[n][1]
            val_x == asg[n][2]
        IN  /\ var_x.length = Len(val_x)
            /\ \A var_y \in Neighbors(cw, var_x) :
                  var_y \in AssignedVars(asg) =>
                      LET overlap == cw.overlaps[<<var_x, var_y>>]
                      IN  val_x[overlap[1] + 1] = ValueOf(asg, var_y)[overlap[2] + 1]

\* consistent, as backtrack calls it: every word comes from a node-consistent
\* domain, so no index is out of range and the call returns True or False
Consistent(cw, asg) ==
    \A n \in 1..Len(asg) :
        LET var_x == asg[n][1]
            val_x == asg[n][2]
        IN  /\ \A m \in 1..(n - 1) : asg[m][2] # val_x
            /\ var_x.length = Len(val_x)
            /\ \A var_y \in Neighbors(cw, var_x) :
                  var_y \in AssignedVars(asg) =>
                      LET overlap == cw.overlaps[<<var_x, var_y>>]
                      IN  val_x[overlap[1] + 1] = ValueOf(asg, var_y)[overlap[2] + 1]

\* consistent, lines 195-209: how the pass over the n-th entry of the
\* assignment can end: "ok" when the loop goes on to the next entry, "False"
\* for a return False, "IndexError" when assignment[var_y][overlap[1]] reads
\* past the end of var_y's word. The neighbors are visited in set order, so
\* the first of them that stops the pass can be any that would stop it.
EntryOutcomes(cw, asg, n) ==
    LET var_x == asg[n][1]
        val_x == asg[n][2]
        check(var_y) ==
            LET overlap == cw.overlaps[<<var_x, var_y>>]
                val_y == ValueOf(asg, var_y)
            IN  IF overlap[2] + 1 > Len(val_y)
                THEN "IndexError"
                ELSE IF val_x[overlap[1] + 1] # val_y[overlap[2] + 1] THEN "False" ELSE "ok"
        stops == {check(var_y) : var_y \in Neighbors(cw, var_x) \cap AssignedVars(asg)} \ {"ok"}
    IN  IF \E m \in 1..(n - 1) : asg[m][2] = val_x
        THEN {"False"}
        ELSE IF var_x.length # Len(val_x)
             THEN {"False"}
             ELSE IF stops = {} THEN {"ok"} ELSE stops

\* consistent from its n-th entry on: what the call can return or raise
RECURSIVE ConsistentFrom(_, _, _)
ConsistentFrom(cw, asg, n) ==
    IF n > Len(asg)
    THEN {"True"}
    ELSE LET e == EntryOutcomes(cw, asg, n)
         IN  (e \ {"ok"}) \cup (IF "ok" \in e THEN ConsistentFrom(cw, asg, n + 1) ELSE {})

\* consistent(assignment) for any dict of variables to words
ConsistentOutcomes(cw, asg) == ConsistentFrom(cw, asg, 1)

\* order_domain_values, lines 252-261: values ruled out by `word`
RECURSIVE Total(_, _, _, _, _)
Total(cw, dom, var, neighbours, word) ==
    IF neighbours = {}
    THEN 0
    ELSE LET neighbour == CHOOSE nb \in neighbours : TRUE
             overlap == cw.overlaps[<<var, neighbour>>]
         IN  Cardinality({value \in dom[neighbour] :
                              overlap # None /\ word[overlap[1] + 1] # value[overlap[2] + 1]})
             + Total(cw, dom, var, neighbours \ {neighbour}, word)

\* bug: the neighbours already in the assignment are counted too
OrderDomainValuesAllNeighbours(cw, dom, var, asg) ==
    LET neighbours == Neighbors(cw, var)
    IN  {s \in Perms(dom[var]) :
            \A a, b \in 1..Len(s) :
                a < b => Total(cw, dom, var, neighbours, s[a])
                            <= Total(cw, dom, var, neighbours, s[b])}

\* order_domain_values: the lists a stable sort of the domain by total can give
OrderDomainValues(cw, dom, var, asg) ==
    LET neighbours == Neighbors(cw, var) \ AssignedVars(asg)
    IN  {s \in Perms(dom[var]) :
            \A a, b \in 1..Len(s) :
                a < b => Total(cw, dom, var, neighbours, s[a])
                            <= Total(cw, dom, var, neighbours, s[b])}

\* bug: the unassigned variables are not sorted by domain size
SelectFirstUnassigned(dom, order, asg) ==
    LET unassigned_var == SelectSeq(order, LAMBDA var : var \notin AssignedVars(asg))
    IN  IF unassigned_var = <<>> THEN None ELSE unassigned_var[1]

\* select_unassigned_variable: first of the unassigned variables, stably sorted
\* by domain size
SelectUnassignedVariable(dom, order, asg) ==
    LET unassigned_var == SelectSeq(order, LAMBDA var : var \notin AssignedVars(asg))
    IN  IF unassigned_var = <<>>
        THEN None
        ELSE unassigned_var[CHOOSE n \in 1..Len(unassigned_var) :
                \A m \in 1..Len(unassigned_var) :
                    \/ Cardinality(dom[unassigned_var[n]]) < Cardinality(dom[unassigned_var[m]])
                    \/ /\ Cardinality(dom[unassigned_var[n]]) = Cardinality(dom[unassigned_var[m]])
                       /\ n <= m]

\* bug: the offset k is added along the wrong axis
RECURSIVE LetterAtSwapped(_, _, _)
LetterAtSwapped(asg, i, j) ==
    IF asg = <<>>
    THEN None
    ELSE LET variable == asg[Len(asg)][1]
             word == asg[Len(asg)][2]
             ks == {k \in 0..(Len(word) - 1) :
                        /\ i = variable.i + (IF variable.direction = ACROSS THEN k ELSE 0)
                        /\ j = variable.j + (IF variable.direction = DOWN THEN k ELSE 0)}
         IN  IF ks # {}
             THEN word[(CHOOSE k \in ks : TRUE) + 1]
             ELSE LetterAtSwapped(SubSeq(asg, 1, Len(asg) - 1), i, j)

\* letter_grid: the letters written to cell (i, j), in the order of assignment.items()
RECURSIVE LetterAt(_, _, _)
LetterAt(asg, i, j) ==
    IF asg = <<>>
    THEN None
    ELSE LET variable == asg[Len(asg)][1]
             word == asg[Len(asg)][2]
             ks == {k \in 0..(Len(word) - 1) :
                        /\ i = variable.i + (IF variable.direction = DOWN THEN k ELSE 0)
                        /\ j = variable.j + (IF variable.direction = ACROSS THEN k ELSE 0)}
         IN  IF ks # {}
             THEN word[(CHOOSE k \in ks : TRUE) + 1]
             ELSE LetterAt(SubSeq(asg, 1, Len(asg) - 1), i, j)

LetterGrid(cw, asg) ==
    [i \in 0..(cw.height - 1) |-> [j \in 0..(cw.width - 1) |-> LetterAt(asg, i, j)]]

\* ------------------------------------------------------------------------
\* CrosswordCreator.solve as a state machine
\* ------------------------------------------------------------------------
EmptyBoard == [i \in 0..2 |-> [j \in 0..2 |-> None]]

TTTIdle == board = EmptyBoard /\ win = Unset /\ best_move = Unset

FnIdle == rev_last = Unset /\ consistent_ret = Unset

MinesweeperIdle ==
    /\ ms_height = 0
    /\ ms_width = 0
    /\ ms_mines = {}
    /\ moves_made = {}
    /\ ai_mines = {}
    /\ safes = {}
    /\ knowledge = <<>>

\* main(): Crossword(structure, words); CrosswordCreator(crossword)
Init ==
    /\ crossword \in Crosswords
    /\ varOrder \in Perms(crossword.variables)
    /\ domains = InitDomains(crossword)
    /\ pc = "solve"
    /\ queue = <<>>
    /\ ac3_ret = Unset
    /\ assignment = <<>>
    /\ stack = <<>>
    /\ bt_calls = 0
    /\ solved = Unset
    /\ letters = Unset
    /\ TTTIdle
    /\ FnIdle
    /\ MinesweeperIdle

\* solve, line 93
EnforceNodeConsistency ==
    /\ pc = "solve"
    /\ domains' = NodeConsistentDomains(domains)
    /\ pc' = "ac3"
    /\ UNCHANGED <<crossword, varOrder, queue, ac3_ret, assignment, stack, bt_calls,
                   solved, letters, board, win, best_move, fnvars, msvars>>

\* solve, line 94: ac3() with arcs = None builds the list of all arcs
Ac3Start ==
    /\ pc = "ac3"
    /\ queue' = AllArcs(varOrder)
    /\ pc' = "ac3_loop"
    /\ UNCHANGED <<crossword, varOrder, domains, ac3_ret, assignment, stack, bt_calls,
                   solved, letters, board, win, best_move, fnvars, msvars>>

\* one iteration of `while queue`
Ac3Step ==
    /\ pc = "ac3_loop"
    /\ queue # <<>>
    /\ LET x == queue[Len(queue)][1]
           y == queue[Len(queue)][2]
           rest == Pop(queue)
           r == Revise(crossword, domains, x, y)
       IN  /\ domains' = r.domains
           /\ IF r.revised
              THEN IF DomainEmpty(r.domains, x)
                   THEN /\ ac3_ret' = "False"
                        /\ pc' = "ac3_returned"
                        /\ queue' = rest
                   ELSE /\ \E pushed \in PushedArcs(crossword, x, y) : queue' = rest \o pushed
                        /\ UNCHANGED <<ac3_ret, pc>>
              ELSE /\ queue' = rest
                   /\ UNCHANGED <<ac3_ret, pc>>
    /\ UNCHANGED <<crossword, varOrder, assignment, stack, bt_calls, solved, letters,
                   board, win, best_move, fnvars, msvars>>

\* the loop ends with the queue exhausted: ac3 falls off its end
Ac3Exhausted ==
    /\ pc = "ac3_loop"
    /\ queue = <<>>
    /\ ac3_ret' = None
    /\ pc' = "ac3_returned"
    /\ UNCHANGED <<crossword, varOrder, domains, queue, assignment, stack, bt_calls,
                   solved, letters, board, win, best_move, fnvars, msvars>>

\* solve, line 95: return self.backtrack(dict())
SolveBacktrack ==
    /\ pc = "ac3_returned"
    /\ assignment' = <<>>
    /\ pc' = "backtrack"
    /\ UNCHANGED <<crossword, varOrder, domains, queue, ac3_ret, stack, bt_calls,
                   solved, letters, board, win, best_move, fnvars, msvars>>

\* backtrack, line 304: the values the loop of a call can take next. The list
\* order_domain_values returned is one of OrderDomainValues; `tried` are the
\* values its loop has been through, so the next one follows them in the list.
NextValues(cw, dom, var, asg, tried) ==
    {s[Cardinality(tried) + 1] :
        s \in {o \in OrderDomainValues(cw, dom, var, asg) :
                  /\ Cardinality(tried) < Len(o)
                  /\ {o[k] : k \in 1..Cardinality(tried)} = tried}}

\* backtrack, lines 301-304: entry of a call
BacktrackEnter ==
    /\ pc = "backtrack"
    /\ bt_calls' = bt_calls + 1
    /\ IF AssignmentComplete(domains, assignment)
       THEN /\ solved' = assignment
            /\ pc' = "done"
            /\ UNCHANGED stack
       ELSE /\ stack' = Append(stack,
                    [var |-> SelectUnassignedVariable(domains, varOrder, assignment),
                     tried |-> {},
                     entry |-> [assignment |-> assignment, domains |-> domains]])
            /\ pc' = "bt_loop"
            /\ UNCHANGED solved
    /\ UNCHANGED <<crossword, varOrder, domains, queue, ac3_ret, assignment, letters,
                   board, win, best_move, fnvars, msvars>>

\* backtrack, lines 304-312: the next value of the innermost call's loop
BacktrackTry ==
    /\ pc = "bt_loop"
    /\ LET frame == stack[Len(stack)]
           var == frame.var
       IN  \E value \in NextValues(crossword, domains, var, assignment, frame.tried) :
               LET new_assignment == SetItem(assignment, var, value)
               IN  IF Consistent(crossword, new_assignment)
                   THEN /\ assignment' = SetItem(assignment, var, value)
                        /\ pc' = "backtrack"
                        /\ UNCHANGED stack
                   ELSE /\ assignment' = PopItem(assignment, var)
                        /\ stack' = [stack EXCEPT ![Len(stack)].tried = frame.tried \cup {value}]
                        /\ UNCHANGED pc
    /\ UNCHANGED <<crossword, varOrder, domains, queue, ac3_ret, bt_calls, solved,
                   letters, board, win, best_move, fnvars, msvars>>

\* backtrack, line 313: the loop of the innermost call is exhausted and the
\* call returns None; its caller pops its own variable (line 312) and goes on
\* with its loop
BacktrackFail ==
    /\ pc = "bt_loop"
    /\ LET frame == stack[Len(stack)]
       IN  NextValues(crossword, domains, frame.var, assignment, frame.tried) = {}
    /\ LET callers == SubSeq(stack, 1, Len(stack) - 1)
       IN  IF callers = <<>>
           THEN /\ stack' = <<>>
                /\ solved' = None
                /\ pc' = "done"
                /\ UNCHANGED assignment
           ELSE LET frame == callers[Len(callers)]
                IN  /\ assignment' = PopItem(assignment, frame.var)
                    /\ stack' = [callers EXCEPT ![Len(callers)].tried =
                                    frame.tried \cup {ValueOf(assignment, frame.var)}]
                    /\ UNCHANGED <<solved, pc>>
    /\ UNCHANGED <<crossword, varOrder, domains, queue, ac3_ret, bt_calls, letters,
                   board, win, best_move, fnvars, msvars>>

\* main, lines 332-335: a found assignment is printed through letter_grid
PrintLetterGrid ==
    /\ pc = "done"
    /\ solved # None
    /\ letters' = LetterGrid(crossword, solved)
    /\ pc' = "printed"
    /\ UNCHANGED <<crossword, varOrder, domains, queue, ac3_ret, assignment, stack,
                   bt_calls, solved, board, win, best_move, fnvars, msvars>>

Next ==
    \/ EnforceNodeConsistency
    \/ Ac3Start
    \/ Ac3Step
    \/ Ac3Exhausted
    \/ SolveBacktrack
    \/ BacktrackEnter
    \/ BacktrackTry
    \/ BacktrackFail
    \/ PrintLetterGrid

Spec == Init /\ [][Next]_vars

\* ------------------------------------------------------------------------
\* Crossword claims
\* ------------------------------------------------------------------------
Returned == pc \in {"done", "printed"}

\* the complete consistent assignments of a crossword, by the definition of
\* the data model: one word per variable, distinct, of the variable's length,
\* agreeing on every shared cell
Solutions(cw) ==
    {f \in [cw.variables -> cw.words] :
        /\ \A v1, v2 \in cw.variables : v1 # v2 => f[v1] # f[v2]
        /\ \A v \in cw.variables : Len(f[v]) = v.length
        /\ \A v1, v2 \in cw.variables :
              \A k1 \in 0..(v1.length - 1), k2 \in 0..(v2.length - 1) :
                  (v1 # v2 /\ CellAt(v1, k1) = CellAt(v2, k2)) => f[v1][k1 + 1] = f[v2][k2 + 1]}

\* the mapping held by an assignment dict
AsFunction(asg) == [v \in AssignedVars(asg) |-> ValueOf(asg, v)]

\* C1: an assignment returned by solve() is complete and valid: it has an
\* entry for every variable, the words are pairwise distinct, each has its
\* variable's length, and crossing words agree on the shared letter.
C1_ReturnedAssignmentValid ==
    (Returned /\ solved # None) =>
        /\ \A m, n \in 1..Len(solved) : m # n => solved[m][1] # solved[n][1]
        /\ AsFunction(solved) \in Solutions(crossword)

C1_Witness ==
    /\ pc = "done"
    /\ solved # None
    /\ Cardinality(crossword.variables) = 3
    /\ bt_calls > 4

\* C2: solve() is complete: whenever a complete consistent assignment exists,
\* solve() returns one of them (so the only one, when there is exactly one).
C2_SolveComplete ==
    Returned =>
        \/ /\ solved # None
           /\ AsFunction(solved) \in Solutions(crossword)
        \/ Solutions(crossword) = {}

C2_Witness ==
    /\ pc = "done"
    /\ Cardinality(crossword.variables) = 2
    /\ Cardinality(Solutions(crossword)) = 1
    /\ Solutions(crossword) = {AsFunction(solved)}
    /\ \E v \in DOMAIN domains : domains[v] # NodeConsistentDomains(InitDomains(crossword))[v]

\* C3: when ac3 has emptied a domain (it returned False), solve() returns None.
C3_EmptiedDomainNoSolution ==
    (Returned /\ ac3_ret = "False") => solved = None

C3_Witness ==
    /\ pc = "done"
    /\ ac3_ret = "False"
    /\ \E v \in DOMAIN domains : domains[v] = {}
    /\ \E v \in DOMAIN domains : domains[v] # {}

\* C4: when ac3 has emptied a domain (it returned False), backtrack is never
\* called in that run of solve().
C4_NoBacktrackAfterAc3Failure ==
    ac3_ret = "False" => bt_calls = 0

\* C5: after enforce_node_consistency every word left in a domain has the
\* variable's length, and every vocabulary word of that length is still there.
C5_NodeConsistency ==
    /\ pc # "solve" => \A v \in DOMAIN domains : \A w \in domains[v] : Len(w) = v.length
    /\ pc = "ac3" =>
          \A v \in DOMAIN domains : \A w \in crossword.words : Len(w) = v.length => w \in domains[v]

C5_Witness ==
    /\ pc = "ac3"
    /\ \E v1, v2 \in DOMAIN domains :
          /\ v1.length # v2.length
          /\ domains[v1] # {} /\ domains[v1] # crossword.words
          /\ domains[v2] # {} /\ domains[v2] # crossword.words

\* C6: when ac3 seeded with all arcs finishes on node-consistent domains
\* without emptying a domain, every word of x's domain has, for every y
\* overlapping x at (a, b), a word u of y's domain with w[a] = u[b].
C6_ArcConsistent ==
    (pc = "ac3_returned" /\ ac3_ret # "False") =>
        \A x, y \in DOMAIN domains :
            (x # y /\ Overlaps(x, y) # None) =>
                \A w \in domains[x] : \E u \in domains[y] :
                    w[Overlaps(x, y)[1] + 1] = u[Overlaps(x, y)[2] + 1]

C6_Witness ==
    /\ pc = "ac3_returned"
    /\ ac3_ret # "False"
    /\ Cardinality(DOMAIN domains) = 3
    /\ \A v \in DOMAIN domains : domains[v] # {}
    /\ \E v \in DOMAIN domains : domains[v] # NodeConsistentDomains(InitDomains(crossword))[v]

\* C7: ac3() returns True when the queue is exhausted with no domain empty,
\* and False when one or more domains end up empty.
C7_Ac3ReturnValue ==
    pc = "ac3_returned" =>
        IF \E v \in DOMAIN domains : domains[v] = {}
        THEN ac3_ret = "False"
        ELSE ac3_ret = "True"

\* C8: letter_grid of the solved assignment holds, for every variable v and
\* every k < v.length, the k-th letter of v's word in v's k-th cell, and None
\* in every cell that no variable covers.
C8_LetterGrid ==
    pc = "printed" =>
        /\ DOMAIN letters = 0..(crossword.height - 1)
        /\ \A i \in DOMAIN letters : DOMAIN letters[i] = 0..(crossword.width - 1)
        /\ \A v \in AssignedVars(solved) : \A k \in 0..(v.length - 1) :
              letters[v.i + (IF v.direction = DOWN THEN k ELSE 0)]
                     [v.j + (IF v.direction = ACROSS THEN k ELSE 0)] = ValueOf(solved, v)[k + 1]
        /\ \A i \in 0..(crossword.height - 1), j \in 0..(crossword.width - 1) :
              (\A v \in AssignedVars(solved) : <<i, j>> \notin Cells(v)) => letters[i][j] = None

C8_Witness ==
    /\ pc = "printed"
    /\ Cardinality(AssignedVars(solved)) = 3
    /\ \E i \in DOMAIN letters : \E j \in DOMAIN letters[i] : letters[i][j] = None

\* ------------------------------------------------------------------------
\* Crossword claims on the search heuristics
\* ------------------------------------------------------------------------
\* the variables select_unassigned_variable is asked to choose from
Unassigned(cw, asg) == cw.variables \ AssignedVars(asg)

Degree(cw, var) == Cardinality({v \in cw.variables : v # var /\ Overlaps(v, var) # None})

\* the values of the domains of var's unassigned neighbours that `word` conflicts with
Eliminated(cw, dom, asg, var, word) ==
    Cardinality({e \in UNION {{<<nb, value>> : value \in dom[nb]} : nb \in Unassigned(cw, asg) \ {var}} :
        /\ Overlaps(var, e[1]) # None
        /\ word[Overlaps(var, e[1])[1] + 1] # e[2][Overlaps(var, e[1])[2] + 1]})

\* C12: the variable select_unassigned_variable returned to a backtrack call
\* is not in the assignment the call was entered with and has the fewest
\* remaining values among the unassigned variables.
C12_SelectMinimumRemaining ==
    \A k \in 1..Len(stack) :
        LET frame == stack[k]
        IN  /\ frame.var \in Unassigned(crossword, frame.entry.assignment)
            /\ \A u \in Unassigned(crossword, frame.entry.assignment) :
                  Cardinality(frame.entry.domains[frame.var]) <= Cardinality(frame.entry.domains[u])

C12_Witness ==
    /\ pc = "bt_loop"
    /\ LET frame == stack[Len(stack)]
       IN  /\ frame.var # SelectFirstUnassigned(domains, varOrder, frame.entry.assignment)
           /\ \E u \in Unassigned(crossword, frame.entry.assignment) :
                 Cardinality(domains[frame.var]) < Cardinality(domains[u])
           /\ domains[frame.var] # {}

\* C13: among the unassigned variables that tie for the fewest remaining
\* values, none has strictly more neighbors than the variable returned.
C13_DegreeTieBreak ==
    \A k \in 1..Len(stack) :
        LET frame == stack[k]
        IN  \A u \in Unassigned(crossword, frame.entry.assignment) :
                Cardinality(frame.entry.domains[u]) = Cardinality(frame.entry.domains[frame.var])
                    => Degree(crossword, u) <= Degree(crossword, frame.var)

\* C14: when a backtrack call has just obtained its candidates, every list
\* order_domain_values can have returned holds each word of the variable's
\* domain exactly once, in non-decreasing order of the number of values of
\* the unassigned neighbours' domains the word conflicts with.
C14_LeastConstrainingOrder ==
    (pc = "bt_loop" /\ stack[Len(stack)].tried = {}) =>
        LET frame == stack[Len(stack)]
            eliminated == [word \in domains[frame.var] |->
                              Eliminated(crossword, domains, assignment, frame.var, word)]
        IN  \A s \in OrderDomainValues(crossword, domains, frame.var, assignment) :
                /\ Len(s) = Cardinality(domains[frame.var])
                /\ {s[n] : n \in 1..Len(s)} = domains[frame.var]
                /\ \A a \in 1..(Len(s) - 1) : eliminated[s[a]] <= eliminated[s[a + 1]]

C14_Witness ==
    /\ pc = "bt_loop"
    /\ stack[Len(stack)].tried = {}
    /\ LET frame == stack[Len(stack)]
       IN  /\ \E nb \in AssignedVars(assignment) : Overlaps(frame.var, nb) # None
           /\ \E nb \in Unassigned(crossword, assignment) \ {frame.var} :
                 Overlaps(frame.var, nb) # None
           /\ \E w1, w2 \in domains[frame.var] :
                 Eliminated(crossword, domains, assignment, frame.var, w1)
                    < Eliminated(crossword, domains, assignment, frame.var, w2)

\* C15: whenever the loop of a backtrack call is at its head - before each
\* candidate and when the call returns None - the assignment and the domains
\* are exactly those the call was entered with.
C15_NoLeakAcrossBranches ==
    pc = "bt_loop" =>
        /\ stack[Len(stack)].entry.assignment = assignment
        /\ stack[Len(stack)].entry.domains = domains

C15_Witness ==
    /\ pc = "bt_loop"
    /\ Len(stack) >= 2
    /\ LET frame == stack[Len(stack)]
       IN  /\ NextValues(crossword, domains, frame.var, assignment, frame.tried) = {}
           /\ \E value \in frame.tried :
                 Consistent(crossword, SetItem(assignment, frame.var, value))

\* ------------------------------------------------------------------------
\* ac3(arcs) called on its own with a caller-supplied list of arcs
\* ------------------------------------------------------------------------
\* the sub-lists of a list, elements kept in order
RECURSIVE SubLists(_)
SubLists(q) ==
    IF q = <<>>
    THEN {<<>>}
    ELSE LET tails == SubLists(Tail(q))
         IN  tails \cup {<<Head(q)>> \o t : t \in tails}

\* ac3, lines 161-168: the list of all arcs when arcs is None, else the list
\* the caller passed
ArcLists(order) == SubLists(AllArcs(order))

InitAc3 ==
    /\ crossword \in Crosswords
    /\ varOrder \in Perms(crossword.variables)
    /\ domains = NodeConsistentDomains(InitDomains(crossword))
    /\ pc = "ac3_loop"
    /\ queue \in ArcLists(varOrder)
    /\ ac3_ret = Unset
    /\ assignment = <<>>
    /\ stack = <<>>
    /\ bt_calls = 0
    /\ solved = Unset
    /\ letters = Unset
    /\ TTTIdle
    /\ FnIdle
    /\ MinesweeperIdle

NextAc3 ==
    \/ Ac3Step
    \/ Ac3Exhausted

\* the while loop of ac3 runs on: an iteration that can be taken is taken
Ac3Fairness == WF_vars(Ac3Step) /\ WF_vars(Ac3Exhausted)

SpecAc3 == InitAc3 /\ [][NextAc3]_vars /\ Ac3Fairness

\* C16: from every grid, vocabulary and initial list of arcs, ac3 eventually
\* returns.
C16_Ac3Terminates == <>(pc = "ac3_returned")

C16_Witness ==
    /\ pc = "ac3_returned"
    /\ ac3_ret = None
    /\ Cardinality(crossword.variables) = 3
    /\ \E v \in crossword.variables :
          domains[v] # NodeConsistentDomains(InitDomains(crossword))[v]

\* ------------------------------------------------------------------------
\* revise(x, y) called on its own, any number of times
\* ------------------------------------------------------------------------
InitRevise ==
    /\ crossword \in Crosswords
    /\ varOrder \in Perms(crossword.variables)
    /\ domains = NodeConsistentDomains(InitDomains(crossword))
    /\ pc = "revise"
    /\ queue = <<>>
    /\ ac3_ret = Unset
    /\ assignment = <<>>
    /\ stack = <<>>
    /\ bt_calls = 0
    /\ solved = Unset
    /\ letters = Unset
    /\ TTTIdle
    /\ FnIdle
    /\ MinesweeperIdle

\* self.revise(x, y); rev_last keeps the call, the domains it found, what it
\* returned and whether it repeats a call that has just returned False
CallRevise ==
    /\ pc \in {"revise", "revised"}
    /\ \E x, y \in crossword.variables :
          /\ x # y
          /\ LET r == Revise(crossword, domains, x, y)
             IN  /\ domains' = r.domains
                 /\ rev_last' = [x |-> x, y |-> y, before |-> domains, revised |-> r.revised,
                                 again |-> /\ pc = "revised"
                                           /\ rev_last.x = x
                                           /\ rev_last.y = y
                                           /\ ~rev_last.revised]
    /\ pc' = "revised"
    /\ UNCHANGED <<crossword, varOrder, queue, ac3_ret, assignment, stack, bt_calls,
                   solved, letters, board, win, best_move, consistent_ret, msvars>>

NextRevise == CallRevise

SpecRevise == InitRevise /\ [][NextRevise]_vars

\* C17: a revise(x, y) that immediately follows a revise(x, y) which returned
\* False returns False again and leaves every domain as it was; and revise of
\* a pair with no overlap returns False and changes no domain.
C17_ReviseIdempotent ==
    pc = "revised" =>
        /\ rev_last.again => (~rev_last.revised /\ domains = rev_last.before)
        /\ Overlaps(rev_last.x, rev_last.y) = None =>
              (~rev_last.revised /\ domains = rev_last.before)

C17_Witness ==
    /\ pc = "revised"
    /\ rev_last.again
    /\ Overlaps(rev_last.x, rev_last.y) # None
    /\ domains # NodeConsistentDomains(InitDomains(crossword))
    /\ domains[rev_last.x] # {}

C17_WitnessNoOverlap ==
    /\ pc = "revised"
    /\ Overlaps(rev_last.x, rev_last.y) = None
    /\ domains[rev_last.x] # {}

\* ------------------------------------------------------------------------
\* consistent(assignment) called on its own with any assignment of words
\* ------------------------------------------------------------------------
InitConsistent ==
    /\ crossword \in Crosswords
    /\ varOrder \in Perms(crossword.variables)
    /\ domains = InitDomains(crossword)
    /\ pc = "assign"
    /\ queue = <<>>
    /\ ac3_ret = Unset
    /\ assignment = <<>>
    /\ stack = <<>>
    /\ bt_calls = 0
    /\ solved = Unset
    /\ letters = Unset
    /\ TTTIdle
    /\ FnIdle
    /\ MinesweeperIdle

\* assignment[var] = word, for the caller's dict
Assign ==
    /\ pc = "assign"
    /\ \E var \in crossword.variables \ AssignedVars(assignment), word \in crossword.words :
          assignment' = SetItem(assignment, var, word)
    /\ UNCHANGED <<crossword, varOrder, domains, pc, queue, ac3_ret, stack, bt_calls,
                   solved, letters, board, win, best_move, fnvars, msvars>>

\* self.consistent(assignment)
CallConsistent ==
    /\ pc = "assign"
    /\ consistent_ret' \in ConsistentOutcomes(crossword, assignment)
    /\ pc' = "consistent_returned"
    /\ UNCHANGED <<crossword, varOrder, domains, queue, ac3_ret, assignment, stack,
                   bt_calls, solved, letters, board, win, best_move, rev_last, msvars>>

NextConsistent ==
    \/ Assign
    \/ CallConsistent

SpecConsistent == InitConsistent /\ [][NextConsistent]_vars

\* an assignment is consistent: every word has its variable's length, no two
\* variables share a word, overlapping variables agree at the overlap
IsConsistentAssignment(asg) ==
    /\ \A n \in 1..Len(asg) : asg[n][1].length = Len(asg[n][2])
    /\ \A n, m \in 1..Len(asg) : n # m => asg[n][2] # asg[m][2]
    /\ \A n, m \in 1..Len(asg) :
          (n # m /\ Overlaps(asg[n][1], asg[m][1]) # None) =>
              asg[n][2][Overlaps(asg[n][1], asg[m][1])[1] + 1]
                  = asg[m][2][Overlaps(asg[n][1], asg[m][1])[2] + 1]

\* C18: consistent(assignment) returns True when the assignment is consistent
\* and returns False when it is not.
C18_ConsistentExact ==
    pc = "consistent_returned" =>
        consistent_ret = (IF IsConsistentAssignment(assignment) THEN "True" ELSE "False")

\* ------------------------------------------------------------------------
\* Tic-tac-toe (tictactoe.py)
\* ------------------------------------------------------------------------
X == "X"
O == "O"
EMPTY == None

\* float('-inf') and float('inf'): below and above every utility
NegInf == -2
PosInf == 2

initial_state == EmptyBoard

Count(b, mark) == Cardinality({c \in (0..2) \X (0..2) : b[c[1]][c[2]] = mark})

player(b) == IF Count(b, X) = Count(b, O) THEN X ELSE O

actions(b) == {c \in (0..2) \X (0..2) : b[c[1]][c[2]] = EMPTY}

\* result(board, action) for an action on an empty cell
result(b, action) == [b EXCEPT ![action[1]][action[2]] = player(b)]

\* winner: the first of the eight triples whose three cells are equal decides
winner(b) ==
    IF b[0][0] = b[0][1] /\ b[0][0] = b[0][2] THEN b[0][0]
    ELSE IF b[1][0] = b[1][1] /\ b[1][0] = b[1][2] THEN b[1][0]
    ELSE IF b[2][0] = b[2][1] /\ b[2][0] = b[2][2] THEN b[2][0]
    ELSE IF b[0][0] = b[1][0] /\ b[0][0] = b[2][0] THEN b[0][0]
    ELSE IF b[0][1] = b[1][1] /\ b[0][1] = b[2][1] THEN b[0][1]
    ELSE IF b[0][2] = b[1][2] /\ b[0][2] = b[2][2] THEN b[0][2]
    ELSE IF b[0][0] = b[1][1] /\ b[0][0] = b[2][2] THEN b[0][0]
    ELSE IF b[2][0] = b[1][1] /\ b[2][0] = b[0][2] THEN b[2][0]
    ELSE None

\* terminal: `winner(board) or not actions(board)`; None is falsy
terminal(b) == winner(b) # None \/ actions(b) = {}

utility(b) ==
    IF winner(b) = X THEN 1
    ELSE IF winner(b) = O THEN -1
    ELSE 0

\* minimax: max_value and min_value return <<v, action>>; the for loop takes
\* the actions in any order and random.choice takes any of best_actions.
\* MaxLoop/MinLoop are the loop from a state (remaining actions, alpha or
\* beta, v, best_actions) and give every <<v, best_actions>> it can end with.
RECURSIVE MaxValue(_, _, _), MinValue(_, _, _), MaxLoop(_, _, _, _, _, _), MinLoop(_, _, _, _, _, _)
MaxValue(b, alpha, beta) ==
    IF terminal(b)
    THEN {<<utility(b), None>>}
    ELSE UNION {{<<r[1], action>> : action \in r[2]} :
                    r \in MaxLoop(b, actions(b), alpha, beta, NegInf, {})}

MaxLoop(b, rem, alpha, beta, v, best_actions) ==
    IF rem = {}
    THEN {<<v, best_actions>>}
    ELSE UNION {UNION {
            LET v2 == IF score > v THEN score ELSE v
                best2 == IF score > v THEN {action}
                         ELSE IF score = v THEN best_actions \cup {action}
                         ELSE best_actions
                alpha2 == IF alpha > v2 THEN alpha ELSE v2
            IN  IF beta <= alpha2
                THEN {<<v2, best2>>}
                ELSE MaxLoop(b, rem \ {action}, alpha2, beta, v2, best2)
            : score \in {o[1] : o \in MinValue(result(b, action), alpha, beta)}}
        : action \in rem}

MinValue(b, alpha, beta) ==
    IF terminal(b)
    THEN {<<utility(b), None>>}
    ELSE UNION {{<<r[1], action>> : action \in r[2]} :
                    r \in MinLoop(b, actions(b), alpha, beta, PosInf, {})}

MinLoop(b, rem, alpha, beta, v, best_actions) ==
    IF rem = {}
    THEN {<<v, best_actions>>}
    ELSE UNION {UNION {
            LET v2 == IF score < v THEN score ELSE v
                best2 == IF score < v THEN {action}
                         ELSE IF score = v THEN best_actions \cup {action}
                         ELSE best_actions
                beta2 == IF beta < v2 THEN beta ELSE v2
            IN  IF beta2 <= alpha
                THEN {<<v2, best2>>}
                ELSE MinLoop(b, rem \ {action}, alpha, beta2, v2, best2)
            : score \in {o[1] : o \in MaxValue(result(b, action), alpha, beta)}}
        : action \in rem}

\* minimax(board): the moves it can return
minimax(b) ==
    IF player(b) = X
    THEN {o[2] : o \in MaxValue(b, NegInf, PosInf)}
    ELSE {o[2] : o \in MinValue(b, NegInf, PosInf)}

\* ------------------------------------------------------------------------
\* Tic-tac-toe: a game played by alternating legal moves
\* ------------------------------------------------------------------------
Lines ==
    { {<<i, 0>>, <<i, 1>>, <<i, 2>>} : i \in 0..2 } \cup
    { {<<0, j>>, <<1, j>>, <<2, j>>} : j \in 0..2 } \cup
    { {<<0, 0>>, <<1, 1>>, <<2, 2>>}, {<<2, 0>>, <<1, 1>>, <<0, 2>>} }

\* mark holds all three cells of some row, column or diagonal
HoldsLine(b, mark) == \E line \in Lines : \A c \in line : b[c[1]][c[2]] = mark

GameOver(b) == HoldsLine(b, X) \/ HoldsLine(b, O) \/ actions(b) = {}

CrosswordIdle ==
    /\ crossword = None
    /\ varOrder = <<>>
    /\ domains = <<>>
    /\ pc = "idle"
    /\ queue = <<>>
    /\ ac3_ret = Unset
    /\ assignment = <<>>
    /\ stack = <<>>
    /\ bt_calls = 0
    /\ solved = Unset
    /\ letters = Unset

InitTTT ==
    /\ board = initial_state
    /\ win = Unset
    /\ best_move = Unset
    /\ CrosswordIdle
    /\ FnIdle
    /\ MinesweeperIdle

\* the player to move plays a legal move; play stops once a line is completed
Move ==
    /\ ~GameOver(board)
    /\ \E action \in actions(board) : board' = result(board, action)
    /\ win' = Unset
    /\ best_move' = Unset
    /\ UNCHANGED <<cwvars, fnvars, msvars>>

CallWinner ==
    /\ win = Unset
    /\ win' = winner(board)
    /\ UNCHANGED <<board, best_move>>
    /\ UNCHANGED <<cwvars, fnvars, msvars>>

CallMinimax ==
    /\ best_move = Unset
    /\ ~GameOver(board)
    /\ ~terminal(board)
    /\ Cardinality(actions(board)) <= MaxEmpty
    /\ best_move' \in minimax(board)
    /\ UNCHANGED <<board, win>>
    /\ UNCHANGED <<cwvars, fnvars, msvars>>

NextTTT ==
    \/ Move
    \/ CallWinner
    \/ CallMinimax

SpecTTT == InitTTT /\ [][NextTTT]_vars

\* the game-theoretic value of a position: 1 if X wins under best play, -1 if
\* O wins, 0 for a draw
RECURSIVE GameValue(_)
GameValue(b) ==
    IF HoldsLine(b, X) THEN 1
    ELSE IF HoldsLine(b, O) THEN -1
    ELSE IF actions(b) = {} THEN 0
    ELSE LET vals == {GameValue(result(b, action)) : action \in actions(b)}
         IN  IF player(b) = X
             THEN CHOOSE v \in vals : \A u \in vals : u <= v
             ELSE CHOOSE v \in vals : \A u \in vals : v <= u

\* C9: on a board reached by alternating legal moves where X or O holds a
\* complete line, winner returns that player's mark; it returns None only
\* when no player holds a complete line.
C9_WinnerFound ==
    win # Unset =>
        /\ \A mark \in {X, O} : HoldsLine(board, mark) => win = mark
        /\ win = None => ~(HoldsLine(board, X) \/ HoldsLine(board, O))

\* C10: the action returned by minimax on a non-terminal board leads to a
\* position whose game-theoretic value is the best the player to move can
\* reach, whatever the iteration order and the random tie-break.
C10_MinimaxOptimal ==
    best_move # Unset => GameValue(result(board, best_move)) = GameValue(board)

\* ------------------------------------------------------------------------
\* Minesweeper (minesweeper.py)
\* ------------------------------------------------------------------------
\* largest board of the model
MaxHeight == 2

MaxWidth == 3

BoardCells(h, w) == (0..(h - 1)) \X (0..(w - 1))

\* range(cell[0] - 1, cell[0] + 2) x range(cell[1] - 1, cell[1] + 2)
Block(cell) == ((cell[1] - 1)..(cell[1] + 1)) \X ((cell[2] - 1)..(cell[2] + 1))

\* Minesweeper.nearby_mines
nearby_mines(h, w, mines, cell) ==
    Cardinality({c \in Block(cell) : c # cell /\ c \in BoardCells(h, w) /\ c \in mines})

\* Sentence.known_mines
known_mines(sentence) ==
    IF Cardinality(sentence.cells) = sentence.count /\ sentence.count # 0
    THEN sentence.cells
    ELSE {}

\* Sentence.known_safes
known_safes(sentence) == IF sentence.count = 0 THEN sentence.cells ELSE {}

\* Sentence.mark_mine
SentenceMarkMine(sentence, cell) ==
    IF cell \in sentence.cells
    THEN [cells |-> sentence.cells \ {cell}, count |-> sentence.count - 1]
    ELSE sentence

\* Sentence.mark_safe
SentenceMarkSafe(sentence, cell) ==
    IF cell \in sentence.cells
    THEN [cells |-> sentence.cells \ {cell}, count |-> sentence.count]
    ELSE sentence

\* MinesweeperAI.mark_mine, on the AI's state [mines, safes, knowledge]
mark_mine(ai, cell) ==
    [ai EXCEPT !.mines = ai.mines \cup {cell},
               !.knowledge = [k \in DOMAIN ai.knowledge |->
                                 SentenceMarkMine(ai.knowledge[k], cell)]]

\* MinesweeperAI.mark_safe
mark_safe(ai, cell) ==
    [ai EXCEPT !.safes = ai.safes \cup {cell},
               !.knowledge = [k \in DOMAIN ai.knowledge |->
                                 SentenceMarkSafe(ai.knowledge[k], cell)]]

\* add_knowledge, lines 223-224: mark_mine for each cell of a copy of the set
RECURSIVE MarkMines(_, _)
MarkMines(ai, cells) ==
    IF cells = {}
    THEN ai
    ELSE LET cell == CHOOSE c \in cells : TRUE
         IN  MarkMines(mark_mine(ai, cell), cells \ {cell})

\* add_knowledge, lines 228-229: mark_safe for each cell of a copy of the set
RECURSIVE MarkSafes(_, _)
MarkSafes(ai, cells) ==
    IF cells = {}
    THEN ai
    ELSE LET cell == CHOOSE c \in cells : TRUE
         IN  MarkSafes(mark_safe(ai, cell), cells \ {cell})

\* add_knowledge, step 4, from the k-th sentence on: one pass over the
\* knowledge, marking the sentence's known mines, then its known safes
RECURSIVE MarkKnown(_, _)
MarkKnown(ai, k) ==
    IF k > Len(ai.knowledge)
    THEN ai
    ELSE LET afterMines == MarkMines(ai, known_mines(ai.knowledge[k]))
             afterSafes == MarkSafes(afterMines, known_safes(afterMines.knowledge[k]))
         IN  MarkKnown(afterSafes, k + 1)

\* add_knowledge, step 5, from the k-th sentence on: the loop also visits the
\* sentences it appends
RECURSIVE InferSubsets(_, _, _)
InferSubsets(kn, newSentence, k) ==
    IF k > Len(kn)
    THEN kn
    ELSE LET sentence == kn[k]
         IN  IF /\ newSentence.cells \subseteq sentence.cells
                /\ sentence.count > 0
                /\ newSentence.count > 0
                /\ newSentence # sentence
             THEN InferSubsets(Append(kn, [cells |-> sentence.cells \ newSentence.cells,
                                           count |-> sentence.count - newSentence.count]),
                               newSentence, k + 1)
             ELSE InferSubsets(kn, newSentence, k + 1)

\* add_knowledge(cell, count) on the AI's state
add_knowledge(h, w, ai, cell, count) ==
    LET marked == mark_safe([ai EXCEPT !.moves_made = ai.moves_made \cup {cell}], cell)
        minesCount == Cardinality({c \in Block(cell) : c \in marked.mines})
        undetermined == {c \in Block(cell) :
                            /\ c \in BoardCells(h, w)
                            /\ c \notin marked.safes
                            /\ c \notin marked.moves_made}
        newIndex == Len(marked.knowledge) + 1
        appended == [marked EXCEPT !.knowledge =
                        Append(marked.knowledge,
                               [cells |-> undetermined, count |-> count - minesCount])]
        concluded == MarkKnown(appended, 1)
    IN  [concluded EXCEPT !.knowledge =
            InferSubsets(concluded.knowledge, concluded.knowledge[newIndex], 1)]

\* Minesweeper(height, width, mines) and MinesweeperAI(height, width)
InitMS ==
    /\ ms_height \in 1..MaxHeight
    /\ ms_width \in 1..MaxWidth
    /\ ms_mines \in SUBSET BoardCells(ms_height, ms_width)
    /\ moves_made = {}
    /\ ai_mines = {}
    /\ safes = {}
    /\ knowledge = <<>>
    /\ board = EmptyBoard
    /\ win = Unset
    /\ best_move = Unset
    /\ CrosswordIdle
    /\ FnIdle

\* the game reveals a cell without a mine that was not played before and
\* tells the AI the number of mines around it
AddKnowledge ==
    /\ \E cell \in BoardCells(ms_height, ms_width) \ (ms_mines \cup moves_made) :
          LET ai == add_knowledge(ms_height, ms_width,
                                  [moves_made |-> moves_made, mines |-> ai_mines,
                                   safes |-> safes, knowledge |-> knowledge],
                                  cell, nearby_mines(ms_height, ms_width, ms_mines, cell))
          IN  /\ moves_made' = ai.moves_made
              /\ ai_mines' = ai.mines
              /\ safes' = ai.safes
              /\ knowledge' = ai.knowledge
    /\ UNCHANGED <<cwvars, tttvars, fnvars, ms_height, ms_width, ms_mines>>

NextMS == AddKnowledge

SpecMS == InitMS /\ [][NextMS]_vars

\* C11: every cell the AI holds safe has no mine on the board, and no cell is
\* held both safe and a mine.
C11_KnowledgeSound ==
    /\ safes \cap ms_mines = {}
    /\ safes \cap ai_mines = {}

====
